---------------------------- MODULE Spec2Model ----------------------------
(***************************************************************************)
(* A model of main.py: the renderer that turns the nested list exported by *)
(* docx2python (sections -> rows -> cells -> paragraph strings) into a     *)
(* flat sequence of output paragraphs, transposing every table row into a  *)
(* bordered block of "header: value" lines.                                *)
(*                                                                         *)
(* Paragraphs are TLA+ strings, so joining, header combination and the     *)
(* formatting of an output paragraph are real string computations.         *)
(* Python lists are sequences; the one list the code mutates (the local    *)
(* `table` of iter_table_paragraphs) is modelled with the list object it   *)
(* refers to, so that aliasing with the caller's tree is explicit.         *)
(***************************************************************************)
EXTENDS Integers, Sequences, FiniteSets, TLC

VARIABLES
    docx_tables,  \* the caller's Document Tree: a list of section list objects
    pc,           \* where the run is: see the actions
    sec,          \* index of the section the for loop of line 146 is at
    table,        \* which list object the local `table` names: "copy" or "input"
    copy,         \* contents of the list object created by table[1:]
    headers,      \* the local `headers` of _combine_headers / iter_table_paragraphs
    row_i,        \* how many rows the loop of line 135 has taken
    pending,      \* what the iter_at_depth iterator has still to yield
    out,          \* every paragraph yielded so far, with the section it came from
    file          \* temp.txt: <<>> while unwritten, <<contents>> once written

vars == <<docx_tables, pc, sec, table, copy, headers, row_i, pending, out, file>>

---------------------------------------------------------------------------
(* Program constants.                                                      *)

OPEN_TABLE_MARKER == "4e62660e-8342-4222-8530-d4ff65856687"

TABLE_BORDER == "--------------------"

HEADER_SEPARATOR == " _ "

---------------------------------------------------------------------------
(* Bounds of the model.                                                    *)

\* Sections of a document drawn from SectionPool.
MaxSections == 2

\* Rows of a section after its first row, the rows drawn from Rows.
MaxRows == 2

\* Rows of a section after its first row, the rows drawn from NarrowRows.
MaxTallRows == 4

\* Cells of a row.
MaxCells == 2

---------------------------------------------------------------------------
(* Pure functions of main.py.                                              *)

\* str.join: the items of seq with sep between consecutive ones.
RECURSIVE Join(_, _)
Join(sep, seq) ==
    IF seq = <<>> THEN ""
    ELSE IF Len(seq) = 1 THEN seq[1]
    ELSE seq[1] \o sep \o Join(sep, Tail(seq))

\* list + list over a list of lists.
RECURSIVE Chain(_)
Chain(seqs) == IF seqs = <<>> THEN <<>> ELSE Head(seqs) \o Chain(Tail(seqs))

\* docx2python.iterators.iter_at_depth: the items found depth levels down.
RECURSIVE iter_at_depth(_, _)
iter_at_depth(iterable, depth) ==
    IF depth = 1 THEN iterable
    ELSE Chain([i \in DOMAIN iterable |-> iter_at_depth(iterable[i], depth - 1)])

iter_text_paragraphs(not_a_table) == iter_at_depth(not_a_table, 3)

\* len(seq) == len(set(seq))
_are_all_unique(seq) == Len(seq) = Cardinality({seq[i] : i \in DOMAIN seq})

_join_table_cell(cell) == Join("<br>", cell)

_join_table_row_cells(row) == [i \in DOMAIN row |-> _join_table_cell(row[i])]

\* zip(a, b): pairs until the shorter of the two is exhausted.
RECURSIVE zip(_, _)
zip(a, b) ==
    IF a = <<>> \/ b = <<>> THEN <<>>
    ELSE <<<<Head(a), Head(b)>>>> \o zip(Tail(a), Tail(b))

\* A faulty line 112: the headers so far are dropped, the new row's cells kept.
CombineWithNextOnly(hs, next_header_row) ==
    LET z == zip(hs, next_header_row)
    IN  [i \in DOMAIN z |-> z[i][2]]

\* line 112: [HEADER_SEPARATOR.join(h) for h in zip(headers, next_header_row)]
CombineWith(hs, next_header_row) ==
    LET z == zip(hs, next_header_row)
    IN  [i \in DOMAIN z |-> Join(HEADER_SEPARATOR, z[i])]

\* A faulty pairing: one line per header, a missing cell rendered empty.
RowParagraphPadded(hs, row) ==
    LET row_cells == _join_table_row_cells(row)
    IN  Join("\n", <<TABLE_BORDER>>
                   \o [i \in DOMAIN hs |->
                          hs[i] \o ": " \o (IF i <= Len(row_cells) THEN row_cells[i] ELSE "")]
                   \o <<TABLE_BORDER>>)

\* lines 137-141: the output paragraph of one data row.
RowParagraph(hs, row) ==
    LET row_cells == _join_table_row_cells(row)
        z == zip(hs, row_cells)
    IN  Join("\n", <<TABLE_BORDER>>
                   \o [i \in DOMAIN z |-> z[i][1] \o ": " \o z[i][2]]
                   \o <<TABLE_BORDER>>)

\* A faulty classification that also demands a one-cell first row.
ClassifyOneCell(potential_table) ==
    IF /\ Len(potential_table) >= 1
       /\ Len(potential_table[1]) = 1
       /\ Len(potential_table[1][1]) >= 1
       /\ potential_table[1][1][1] = OPEN_TABLE_MARKER
    THEN "table" ELSE "text"

\* A faulty classification without the try/except: the IndexError escapes.
ClassifyUncaught(potential_table) ==
    IF /\ Len(potential_table) >= 1
       /\ Len(potential_table[1]) >= 1
       /\ Len(potential_table[1][1]) >= 1
    THEN IF potential_table[1][1][1] = OPEN_TABLE_MARKER THEN "table" ELSE "text"
    ELSE "IndexError"

\* lines 147-155: where the section goes. The IndexError of a missing row 0,
\* cell 0 or paragraph 0 is caught and leaves is_table False.
Classify(potential_table) ==
    IF /\ Len(potential_table) >= 1
       /\ Len(potential_table[1]) >= 1
       /\ Len(potential_table[1][1]) >= 1
       /\ potential_table[1][1][1] = OPEN_TABLE_MARKER
    THEN "table" ELSE "text"

\* A faulty strip, del table[0]: the caller's list object loses its first row
\* and `table` goes on naming it.
StripMarkerRowInPlace(rows) ==
    [ref |-> "input", copy |-> <<>>, input |-> SubSeq(rows, 2, Len(rows))]

\* line 127, table = table[1:]: a new list object holds the rows after the
\* first; the caller's list object keeps all of its rows.
StripMarkerRow(rows) ==
    [ref |-> "copy", copy |-> SubSeq(rows, 2, Len(rows)), input |-> rows]

\* line 132, `return iter_text_paragraphs(table)` inside a generator function
\* (the function body holds a yield): the iterator becomes the value of
\* StopIteration and none of its items is yielded.
ReturnInGenerator(iterator) == <<>>

\* A faulty handler that swallows the IndexError and keeps the duplicates.
OnExhaustedGuess == "rows"

\* lines 109-111: an exhausted table raises ValueError.
OnExhausted == "ValueError"

\* lines 164-168: list(...) collects the paragraphs, then temp.txt is written.
FileContents(paragraphs) == Join("\n\n", paragraphs)

---------------------------------------------------------------------------
(* Inputs.                                                                 *)

DataCells == {<<"A">>, <<"B">>}

\* Rows of up to MaxCells one-paragraph cells, a row holding an empty cell and
\* a row holding a cell of two paragraphs.
Rows ==
    UNION {[1..n -> DataCells] : n \in 0..MaxCells}
    \cup {<< <<>> >>, << <<"A", "B">>, <<"A">> >>}

\* Rows for the longer tables: repeated and distinct headers, a short row.
NarrowRows ==
    { << <<"A">>, <<"A">> >>,
      << <<"A">>, <<"B">> >>,
      << <<"B">>, <<"B">> >>,
      << <<"B">> >> }

Bodies ==
    UNION {[1..n -> Rows] : n \in 0..MaxRows}
    \cup UNION {[1..n -> NarrowRows] : n \in 0..MaxTallRows}

\* First rows in which the marker appears: the injected one-cell row, and rows
\* whose text collides with the marker at other places.
MarkerRows ==
    { << <<OPEN_TABLE_MARKER>> >>,
      << <<OPEN_TABLE_MARKER>>, <<"A">> >>,
      << <<"A">>, <<OPEN_TABLE_MARKER>> >>,
      << <<"A", OPEN_TABLE_MARKER>> >> }

Sections == Bodies \cup {<<m>> \o b : m \in MarkerRows, b \in Bodies}

\* Representative sections for documents of several sections.
SectionPool ==
    { <<>>,
      << <<>> >>,
      << << <<>> >>, << <<"A">> >> >>,
      << << <<"A">>, <<"B">> >>, << <<"B">> >> >>,
      << << <<OPEN_TABLE_MARKER>> >>, << <<"A">>, <<"B">> >> >>,
      << << <<OPEN_TABLE_MARKER>> >>, << <<"A">>, <<"B">> >>, << <<"B">>, <<"A">> >>,
         << <<"A">> >> >>,
      << << <<OPEN_TABLE_MARKER>> >>, << <<"A">>, <<"A">> >>, << <<"A">>, <<"B">> >>,
         << <<"B">>, <<"B">> >> >>,
      << << <<OPEN_TABLE_MARKER>> >>, << <<"A">>, <<"A">> >>, << <<"B">>, <<"B">> >> >> }

Documents ==
    {<<s>> : s \in Sections}
    \cup UNION {[1..n -> SectionPool] : n \in 0..MaxSections}

---------------------------------------------------------------------------
(* The run of __main__: list(iter_text_and_table_paragraphs(docx_tables)),  *)
(* then the write of temp.txt.                                             *)

Init ==
    /\ docx_tables \in Documents
    /\ pc = "loop"
    /\ sec = 0
    /\ table = "copy"
    /\ copy = <<>>
    /\ headers = <<>>
    /\ row_i = 0
    /\ pending = <<>>
    /\ out = <<>>
    /\ file = <<>>

\* The list object the local `table` names.
TableRows == IF table = "copy" THEN copy ELSE docx_tables[sec]

\* The state of the list objects after table.pop(0).
Popped ==
    /\ copy' = IF table = "copy" THEN Tail(copy) ELSE copy
    /\ docx_tables' = IF table = "copy" THEN docx_tables
                      ELSE [docx_tables EXCEPT ![sec] = Tail(@)]

\* lines 146-150: take the next section and classify it.
NextSection ==
    /\ pc = "loop"
    /\ sec < Len(docx_tables)
    /\ sec' = sec + 1
    /\ pc' = Classify(docx_tables[sec + 1])
    /\ UNCHANGED <<docx_tables, table, copy, headers, row_i, pending, out, file>>

\* line 155: yield from iter_text_paragraphs(potential_table).
StartText ==
    /\ pc = "text"
    /\ pending' = iter_text_paragraphs(docx_tables[sec])
    /\ pc' = "yield_text"
    /\ UNCHANGED <<docx_tables, sec, table, copy, headers, row_i, out, file>>

YieldText ==
    /\ pc = "yield_text"
    /\ pending # <<>>
    /\ out' = Append(out, [sec |-> sec, par |-> Head(pending)])
    /\ pending' = Tail(pending)
    /\ UNCHANGED <<docx_tables, pc, sec, table, copy, headers, row_i, file>>

EndText ==
    /\ pc = "yield_text"
    /\ pending = <<>>
    /\ pc' = "loop"
    /\ UNCHANGED <<docx_tables, sec, table, copy, headers, row_i, pending, out, file>>

\* lines 127-132: strip the marker row; a table of at most one remaining row
\* returns from the generator.
StartTable ==
    /\ pc = "table"
    /\ LET s == StripMarkerRow(docx_tables[sec])
           rows == IF s.ref = "copy" THEN s.copy ELSE s.input
       IN  /\ table' = s.ref
           /\ copy' = s.copy
           /\ docx_tables' = [docx_tables EXCEPT ![sec] = s.input]
           /\ IF Len(rows) <= 1
              THEN /\ pending' = ReturnInGenerator(iter_text_paragraphs(rows))
                   /\ pc' = "yield_text"
              ELSE /\ pending' = <<>>
                   /\ pc' = "combine"
    /\ row_i' = 0
    /\ headers' = <<>>
    /\ UNCHANGED <<sec, out, file>>

\* A faulty line 105 that reads table[0] and leaves it in the list.
CombineFirstNoPop ==
    /\ pc = "combine"
    /\ headers' = _join_table_row_cells(Head(TableRows))
    /\ pc' = "while"
    /\ UNCHANGED <<docx_tables, sec, table, copy, row_i, pending, out, file>>

\* line 105: headers = _join_table_row_cells(table.pop(0))
CombineFirst ==
    /\ pc = "combine"
    /\ headers' = _join_table_row_cells(Head(TableRows))
    /\ Popped
    /\ pc' = "while"
    /\ UNCHANGED <<sec, table, row_i, pending, out, file>>

\* line 106, the loop condition fails: return headers.
HeadersUnique ==
    /\ pc = "while"
    /\ _are_all_unique(headers)
    /\ pc' = "rows"
    /\ UNCHANGED <<docx_tables, sec, table, copy, headers, row_i, pending, out, file>>

\* lines 108 and 112: pop the next header row and combine.
CombineNext ==
    /\ pc = "while"
    /\ ~_are_all_unique(headers)
    /\ TableRows # <<>>
    /\ headers' = CombineWith(headers, _join_table_row_cells(Head(TableRows)))
    /\ Popped
    /\ UNCHANGED <<pc, sec, table, row_i, pending, out, file>>

\* lines 109-111: pop from an empty list.
HeadersExhausted ==
    /\ pc = "while"
    /\ ~_are_all_unique(headers)
    /\ TableRows = <<>>
    /\ pc' = OnExhausted
    /\ UNCHANGED <<docx_tables, sec, table, copy, headers, row_i, pending, out, file>>

\* A faulty loop that takes the rows from the last to the first.
YieldRowReversed ==
    /\ pc = "rows"
    /\ row_i < Len(TableRows)
    /\ row_i' = row_i + 1
    /\ out' = Append(out, [sec |-> sec,
                           par |-> RowParagraph(headers, TableRows[Len(TableRows) - row_i])])
    /\ UNCHANGED <<docx_tables, pc, sec, table, copy, headers, pending, file>>

\* lines 135-141: one data row, one output paragraph.
YieldRow ==
    /\ pc = "rows"
    /\ row_i < Len(TableRows)
    /\ row_i' = row_i + 1
    /\ out' = Append(out, [sec |-> sec, par |-> RowParagraph(headers, TableRows[row_i + 1])])
    /\ UNCHANGED <<docx_tables, pc, sec, table, copy, headers, pending, file>>

EndRows ==
    /\ pc = "rows"
    /\ row_i >= Len(TableRows)
    /\ pc' = "loop"
    /\ UNCHANGED <<docx_tables, sec, table, copy, headers, row_i, pending, out, file>>

\* line 164: the generator is exhausted, list(...) returns.
Collected ==
    /\ pc = "loop"
    /\ sec >= Len(docx_tables)
    /\ pc' = "collected"
    /\ UNCHANGED <<docx_tables, sec, table, copy, headers, row_i, pending, out, file>>

\* lines 167-168: write temp.txt.
WriteFile ==
    /\ pc = "collected"
    /\ file' = <<FileContents([i \in DOMAIN out |-> out[i].par])>>
    /\ pc' = "done"
    /\ UNCHANGED <<docx_tables, sec, table, copy, headers, row_i, pending, out>>

Next ==
    \/ NextSection
    \/ StartText
    \/ YieldText
    \/ EndText
    \/ StartTable
    \/ CombineFirst
    \/ HeadersUnique
    \/ CombineNext
    \/ HeadersExhausted
    \/ YieldRow
    \/ EndRows
    \/ Collected
    \/ WriteFile

Spec == Init /\ [][Next]_vars


---------------------------------------------------------------------------
(* Vocabulary of the properties: what a section is and what its output     *)
(* should be, stated from the input tree alone.                            *)

\* The paragraphs yielded for section i, in the order they were yielded.
OutOf(i) ==
    LET sel == SelectSeq(out, LAMBDA e : e.sec = i)
    IN  [j \in DOMAIN sel |-> sel[j].par]

\* Section i has been rendered to its end without an error.
Completed(i) == i < sec \/ (i = sec /\ pc \in {"loop", "collected", "done"})

\* The section lacks row 0, or its row 0 lacks cell 0, or that cell lacks
\* paragraph 0.
StructurallyAbsent(s) == s = <<>> \/ Head(s) = <<>> \/ Head(Head(s)) = <<>>

\* The text at [row 0][cell 0][paragraph 0] is the sentinel.
HasSentinel(s) == ~StructurallyAbsent(s) /\ Head(Head(Head(s))) = OPEN_TABLE_MARKER

Min(a, b) == IF a <= b THEN a ELSE b

Distinct(seq) == \A i, j \in DOMAIN seq : i # j => seq[i] # seq[j]

\* The least number of cells among the first k rows.
MinLen(rows, k) ==
    LET lens == {Len(rows[j]) : j \in 1..k}
    IN  CHOOSE n \in lens : \A m \in lens : n <= m

\* The column-wise combination of the first k rows: for every column present
\* in all of them, its k cells joined with the separator.
ColumnHeaders(rows, k) ==
    [i \in 1..MinLen(rows, k) |->
        Join(HEADER_SEPARATOR, [j \in 1..k |-> Join("<br>", rows[j][i])])]

\* The length of the shortest non-empty prefix of rows whose column headers
\* are pairwise distinct; 0 when there is none.
HeaderRows(rows) ==
    LET good == {k \in 1..Len(rows) : Distinct(ColumnHeaders(rows, k))}
    IN  IF good = {} THEN 0 ELSE CHOOSE k \in good : \A m \in good : k <= m

\* A border, min(len(hs), len(row)) lines "header: value", a border.
PairedParagraph(hs, row) ==
    Join("\n", <<TABLE_BORDER>>
               \o [j \in 1..Min(Len(hs), Len(row)) |->
                      hs[j] \o ": " \o Join("<br>", row[j])]
               \o <<TABLE_BORDER>>)

\* The places of the paragraphs of a section, and document order on them.
Positions(s) ==
    UNION {UNION {{<<r, c, p>> : p \in DOMAIN s[r][c]} : c \in DOMAIN s[r]} : r \in DOMAIN s}

Before(a, b) ==
    \/ a[1] < b[1]
    \/ a[1] = b[1] /\ a[2] < b[2]
    \/ a[1] = b[1] /\ a[2] = b[2] /\ a[3] < b[3]

Rank(s, q) == Cardinality({a \in Positions(s) : Before(a, q)}) + 1

\* o holds the first Len(o) paragraphs of s, verbatim and in document order.
StartsPlainContent(o, s) ==
    /\ Len(o) <= Cardinality(Positions(s))
    /\ \A q \in Positions(s) : Rank(s, q) <= Len(o) => o[Rank(s, q)] = s[q[1]][q[2]][q[3]]

IsPlainContent(o, s) == StartsPlainContent(o, s) /\ Len(o) = Cardinality(Positions(s))

---------------------------------------------------------------------------
\* C1: a section classified as a Table with at most one row after the
\* sentinel row emits exactly the Plain Content rendering of the remaining
\* rows: every paragraph of the remaining row, verbatim and in order.
C1_FormattingOnlyFallback ==
    \A i \in 1..sec :
        (/\ Completed(i)
         /\ HasSentinel(docx_tables[i])
         /\ Len(docx_tables[i]) <= 2)
        => IsPlainContent(OutOf(i), Tail(docx_tables[i]))

---------------------------------------------------------------------------
\* A Table whose rows run out before the combined headers are unique.
Exhausts(s) == HasSentinel(s) /\ Len(s) >= 3 /\ HeaderRows(Tail(s)) = 0

\* C2: when a Table runs out of rows before its headers are unique the run
\* ends in ValueError and temp.txt is never written, however many earlier
\* sections were rendered: such a document never reaches the write, the
\* ValueError state is final, and no other state before the write is.
C2_ExhaustionIsFatal ==
    /\ (\E i \in DOMAIN docx_tables : Exhausts(docx_tables[i]))
          => file = <<>> /\ pc \notin {"collected", "done"}
    /\ pc = "ValueError" => Exhausts(docx_tables[sec]) /\ file = <<>> /\ ~ENABLED Next
    /\ pc \notin {"ValueError", "done"} => ENABLED Next

C2_Witness ==
    /\ pc = "ValueError"
    /\ \E e \in DOMAIN out : out[e].sec < sec
    /\ file = <<>>

---------------------------------------------------------------------------
\* C3 as stated: a section is treated as a Table iff its first row has
\* exactly one cell and the first text of that cell is the sentinel.
C3_OneCellSentinel ==
    pc \in {"table", "text"} =>
        (pc = "table" <=>
            /\ HasSentinel(docx_tables[sec])
            /\ Len(Head(docx_tables[sec])) = 1)

\* C3 amended: a section is treated as a Table iff it has a row 0 with a
\* cell 0 with a paragraph 0 equal to the sentinel, whatever the number of
\* cells of row 0; every other section is treated as Plain Content.
C3_SentinelAtOrigin ==
    /\ pc \in {"table", "text"} => (pc = "table" <=> HasSentinel(docx_tables[sec]))
    /\ pc \in {"combine", "while", "rows", "ValueError"} => HasSentinel(docx_tables[sec])
    /\ (pc = "yield_text" /\ pending # <<>>) => ~HasSentinel(docx_tables[sec])

C3_Witness ==
    /\ pc = "table"
    /\ Len(Head(docx_tables[sec])) = 2

---------------------------------------------------------------------------
\* C4: when _combine_headers has returned, it has consumed the shortest
\* non-empty prefix of the rows after the sentinel whose column-wise
\* combined headers are pairwise distinct, the headers are that combination,
\* and no header occurs twice.
C4_HeaderCombination ==
    pc = "rows" =>
        LET rows == Tail(docx_tables[sec])
            k == Len(rows) - Len(TableRows)
        IN  /\ k >= 1
            /\ k = HeaderRows(rows)
            /\ headers = ColumnHeaders(rows, k)
            /\ Distinct(headers)
            /\ TableRows = SubSeq(rows, k + 1, Len(rows))

C4_Witness ==
    /\ pc = "rows"
    /\ Len(docx_tables[sec]) - 1 - Len(TableRows) >= 2
    /\ Len(headers) >= 2
    /\ TableRows # <<>>

---------------------------------------------------------------------------
\* C5: the paragraph yielded for a data row is a border line, then exactly
\* min(len(headers), len(row_cells)) lines pairing header j with cell j in
\* column order, then a border line; what lies beyond the shorter length is
\* dropped without error.
C5_RowPairing ==
    (pc = "rows" /\ row_i >= 1) =>
        /\ out # <<>>
        /\ out[Len(out)].sec = sec
        /\ out[Len(out)].par = PairedParagraph(headers, TableRows[row_i])

C5_Witness ==
    /\ pc = "rows"
    /\ row_i >= 1
    /\ Len(headers) >= 1
    /\ Len(TableRows[row_i]) > Len(headers)

---------------------------------------------------------------------------
\* C6: the output is in document order: no paragraph of a later section
\* precedes one of an earlier section, a Plain Content section yields its
\* paragraphs in their original order, and a Table yields one paragraph per
\* data row, in row order.
C6_DocumentOrder ==
    /\ \A a, b \in DOMAIN out : a < b => out[a].sec <= out[b].sec
    /\ \A e \in DOMAIN out : out[e].sec \in 1..sec
    /\ \A i \in 1..sec :
          LET s == docx_tables[i]
              o == OutOf(i)
          IN  IF ~HasSentinel(s)
              THEN /\ StartsPlainContent(o, s)
                   /\ Completed(i) => IsPlainContent(o, s)
              ELSE Len(s) >= 3 =>
                   LET rows == Tail(s)
                       k == HeaderRows(rows)
                       data == SubSeq(rows, k + 1, Len(rows))
                   IN  IF k = 0 THEN o = <<>>
                       ELSE /\ Len(o) <= Len(data)
                            /\ \A j \in DOMAIN o :
                                  o[j] = PairedParagraph(ColumnHeaders(rows, k), data[j])
                            /\ Completed(i) => Len(o) = Len(data)

C6_Witness ==
    /\ pc = "done"
    /\ \E i, j \in 1..sec :
          /\ i < j
          /\ Len(OutOf(i)) >= 2
          /\ Len(OutOf(j)) >= 2
          /\ HasSentinel(docx_tables[i]) # HasSentinel(docx_tables[j])

---------------------------------------------------------------------------
\* C7: a section that lacks row 0, or whose row 0 lacks cell 0, or whose
\* cell 0 lacks paragraph 0, raises no error, is handled as Plain Content,
\* and rendering goes on with the sections after it.
C7_StructuralAbsence ==
    (sec >= 1 /\ StructurallyAbsent(docx_tables[sec])) =>
        /\ pc \in {"text", "yield_text", "loop", "collected", "done"}
        /\ StartsPlainContent(OutOf(sec), docx_tables[sec])
        /\ Completed(sec) => IsPlainContent(OutOf(sec), docx_tables[sec])
        /\ pc # "done" => ENABLED Next
        /\ (pc = "loop" /\ sec < Len(docx_tables)) => ENABLED NextSection

C7_Witness ==
    \E i \in 1..sec :
        /\ i < sec
        /\ StructurallyAbsent(docx_tables[i])
        /\ OutOf(sec) # <<>>

---------------------------------------------------------------------------
\* C9: a Table with two or more rows after the sentinel yields as many
\* paragraphs as it has rows minus the rows consumed by header combination;
\* when uniqueness is reached only by consuming the last row it yields none
\* and raises no error.
C9_AbsorbedRowsNotRendered ==
    /\ \A i \in 1..sec :
          (Completed(i) /\ HasSentinel(docx_tables[i]) /\ Len(docx_tables[i]) >= 3)
          => /\ HeaderRows(Tail(docx_tables[i])) >= 1
             /\ Len(OutOf(i)) = Len(docx_tables[i]) - 1 - HeaderRows(Tail(docx_tables[i]))
    /\ (pc = "loop" /\ sec >= 1 /\ HasSentinel(docx_tables[sec])
            /\ Len(docx_tables[sec]) >= 3)
          => Len(OutOf(sec)) = Len(TableRows)
    /\ pc = "ValueError" => HeaderRows(Tail(docx_tables[sec])) = 0

C9_Witness ==
    /\ pc = "loop"
    /\ sec >= 1
    /\ HasSentinel(docx_tables[sec])
    /\ Len(docx_tables[sec]) >= 3
    /\ HeaderRows(Tail(docx_tables[sec])) = Len(docx_tables[sec]) - 1
    /\ OutOf(sec) = <<>>

---------------------------------------------------------------------------
\* C10: rendering never changes the caller's Document Tree: every step,
\* the pops of _combine_headers included, leaves every section with the
\* same rows in the same order.
C10_TreeUnchanged == [][docx_tables' = docx_tables]_vars

C10_Witness ==
    /\ pc \in {"done", "ValueError"}
    /\ sec >= 1
    /\ HasSentinel(docx_tables[sec])
    /\ Len(docx_tables[sec]) >= 3
    /\ TableRows = <<>>
    /\ Tail(docx_tables[sec]) # <<>>

=============================================================================
